---- MODULE Spec2Model ----
(***************************************************************************)
(* Model of the seller-financing calculation engine (src/calculations.py). *)
(*                                                                         *)
(* Numbers.  The program computes in binary floating point.  Here every    *)
(* amount of money is an integer count of 1/Dollar of a dollar (1/1000 of  *)
(* a cent) and every rate or growth factor is an integer count of          *)
(* 1/RateScale.  Each arithmetic operation of the source that can be       *)
(* inexact (a product, a quotient, a power) is one MulDiv here: the exact  *)
(* result rounded to the nearest representable value, ties to even, as a   *)
(* floating-point operation rounds.  Sums and differences are exact.       *)
(* round(x, 2) and round(x) are Round2 and Round0: Python's round, ties    *)
(* to even, to whole cents and to whole dollars.                           *)
(***************************************************************************)
EXTENDS Integers, Sequences, FiniteSets, TLC

\* ------------------------------------------------------------------ bounds
MaxTermYears == 2
MaxNegPayments == 2

\* ---------------------------------------------------------- representation
Dollar == 100000
Cent == 1000
RateScale == 100000000
MonthsPerYear == 12
PercentFactor == 100
PercentDecimals == 10

\* ------------------------------------------------------------- arithmetic
Abs(x) == IF x < 0 THEN 0 - x ELSE x

Sign(x) == IF x < 0 THEN 0 - 1 ELSE 1

Min(a, b) == IF a <= b THEN a ELSE b

Max(a, b) == IF a >= b THEN a ELSE b

\* q + r/c (0 <= r < c) rounded to the nearest integer, ties to even
RoundHalfEven(q, r, c) ==
    IF 2 * r < c THEN q
    ELSE IF 2 * r > c THEN q + 1
    ELSE IF q % 2 = 0 THEN q ELSE q + 1

\* largest digit base B with (2B - 1) * c inside the 32-bit integers of the checker
DigitBase(c) == Max(2, 1073741823 \div c)

\* one digit d of the multiplier: from p = <<q, r>> of the higher digits to
\* <<q, r>> including d
MulDivDigit(p, a, d, c, B) ==
    <<B * p[1] + d * (a \div c) + ((B * p[2] + d * (a % c)) \div c),
      (B * p[2] + d * (a % c)) % c>>

\* <<floor(a*b/c), (a*b) mod c>> for a, b >= 0 and c > 0, without forming a*b:
\* b is consumed digit by digit in base B
RECURSIVE MulDivQR(_, _, _, _)
MulDivQR(a, b, c, B) ==
    IF b = 0 THEN <<0, 0>>
    ELSE MulDivDigit(MulDivQR(a, b \div B, c, B), a, b % B, c, B)

\* the pair <<q, r>> of a division by c, rounded to nearest, ties to even
RoundPair(p, c) == RoundHalfEven(p[1], p[2], c)

\* a*b/c rounded to nearest, ties to even (c # 0)
MulDiv(a, b, c) ==
    Sign(a) * Sign(b) * Sign(c)
       * RoundPair(MulDivQR(Max(Abs(a), Abs(b)), Min(Abs(a), Abs(b)), Abs(c),
                            DigitBase(Abs(c))),
                   Abs(c))

\* round(x, 2): to whole cents
Round2(x) == Cent * RoundHalfEven(x \div Cent, x % Cent, Cent)

\* round(x): to whole dollars
Round0(x) == Dollar * RoundHalfEven(x \div Dollar, x % Dollar, Dollar)

\* one more power: <<base^1, ..., base^k>> extended by base^(k+1)
NextPower(prev, base) ==
    Append(prev, MulDiv(IF prev = <<>> THEN RateScale ELSE prev[Len(prev)], base, RateScale))

\* <<base^1, ..., base^n>> on RateScale, by repeated multiplication
RECURSIVE Powers(_, _)
Powers(base, n) ==
    IF n <= 0 THEN <<>> ELSE NextPower(Powers(base, n - 1), base)

\* base ** n for any integer n
Pow(base, n) ==
    IF n = 0 THEN RateScale
    ELSE IF n > 0 THEN Powers(base, n)[n]
    ELSE MulDiv(RateScale, RateScale, Powers(base, 0 - n)[0 - n])

\* annual_rate / 12
MonthlyRate(annual_rate) == MulDiv(annual_rate, 1, MonthsPerYear)

\* ------------------------------------------------------------ result types
None == <<>>

Some(x) == <<x>>

Returned(v) == [raised |-> "none", value |-> <<v>>]

Raised(e) == [raised |-> e, value |-> <<>>]

\* -------------------------------------------------- payment formula module
\* principal * numer / denom of the closed form; a zero denominator raises
AnnuityQuotient(principal, numer, denom) ==
    IF denom = 0 THEN Raised("ZeroDivisionError")
    ELSE Returned(MulDiv(principal, numer, denom))

\* the closed form, with growth = (1 + monthly_rate) ** num_payments
AnnuityPayment(principal, monthly_rate, growth) ==
    AnnuityQuotient(principal, MulDiv(monthly_rate, growth, RateScale), growth - RateScale)

\* the closed-form branch of calculate_monthly_payment
ClosedFormPayment(principal, monthly_rate, num_payments) ==
    AnnuityPayment(principal, monthly_rate, Pow(RateScale + monthly_rate, num_payments))

\* calculate_monthly_payment without the zero-rate special case
calculate_monthly_payment_closed_form_only(principal, annual_rate, num_payments) ==
    ClosedFormPayment(principal, MonthlyRate(annual_rate), num_payments)

calculate_monthly_payment(principal, annual_rate, num_payments) ==
    IF annual_rate = 0
    THEN IF num_payments = 0 THEN Raised("ZeroDivisionError")
         ELSE Returned(MulDiv(principal, 1, num_payments))
    ELSE ClosedFormPayment(principal, MonthlyRate(annual_rate), num_payments)

calculate_interest_only_payment(principal, annual_rate) ==
    MulDiv(MulDiv(principal, annual_rate, RateScale), 1, MonthsPerYear)

\* ------------------------------------------------------------- data shapes
PaymentScheduleRow(payment_number, payment_amount, principal, interest, balance, is_balloon) ==
    [payment_number |-> payment_number,
     payment_amount |-> payment_amount,
     principal      |-> principal,
     interest       |-> interest,
     balance        |-> balance,
     is_balloon     |-> is_balloon]

LoanSummary(amount_financed, apr, finance_charge, total_of_payments, monthly_payment, monthly_payment_amortizing, num_payments, num_io_payments, balloon_amount, balloon_payment_number, loan_type, schedule, monthly_servicing_fee) ==
    [amount_financed            |-> amount_financed,
     apr                        |-> apr,
     finance_charge             |-> finance_charge,
     total_of_payments          |-> total_of_payments,
     monthly_payment            |-> monthly_payment,
     monthly_payment_amortizing |-> monthly_payment_amortizing,
     num_payments               |-> num_payments,
     num_io_payments            |-> num_io_payments,
     balloon_amount             |-> balloon_amount,
     balloon_payment_number     |-> balloon_payment_number,
     loan_type                  |-> loan_type,
     schedule                   |-> schedule,
     monthly_servicing_fee      |-> monthly_servicing_fee,
     purchase_price             |-> 0,
     down_payment               |-> 0,
     closing_costs              |-> 0]

NoteSaleAnalysis(buyer_yield, sale_price, discount_amount, discount_percent) ==
    [buyer_yield      |-> buyer_yield,
     sale_price       |-> sale_price,
     discount_amount  |-> discount_amount,
     discount_percent |-> discount_percent]

\* ------------------------------------------------ standard amortization
\* StandardRow with the principal component added to the balance
StandardRow_adds_principal(i, num_payments, balance, monthly_payment, total_monthly, interest) ==
    LET principal_payment == monthly_payment - interest
        reduced == Max(0, balance + principal_payment)
        fix == i = num_payments /\ reduced > 0
        principal_out == IF fix THEN principal_payment + reduced ELSE principal_payment
        balance_out == IF fix THEN 0 ELSE reduced
    IN  [row |-> PaymentScheduleRow(i, Round2(total_monthly), Round2(principal_out),
                                    Round2(interest), Round2(balance_out), FALSE),
         balance |-> balance_out]

\* StandardRow with the servicing fee left out of payment_amount
StandardRow_payment_without_fee(i, num_payments, balance, monthly_payment, total_monthly, interest) ==
    LET principal_payment == monthly_payment - interest
        reduced == Max(0, balance - principal_payment)
        fix == i = num_payments /\ reduced > 0
        principal_out == IF fix THEN principal_payment + reduced ELSE principal_payment
        balance_out == IF fix THEN 0 ELSE reduced
    IN  [row |-> PaymentScheduleRow(i, Round2(monthly_payment), Round2(principal_out),
                                    Round2(interest), Round2(balance_out), FALSE),
         balance |-> balance_out]

\* the loop body of generate_standard_amortization after interest is computed:
\* the row emitted for period i and the balance carried to the next period
StandardRow(i, num_payments, balance, monthly_payment, total_monthly, interest) ==
    LET principal_payment == monthly_payment - interest
        reduced == Max(0, balance - principal_payment)
        fix == i = num_payments /\ reduced > 0
        principal_out == IF fix THEN principal_payment + reduced ELSE principal_payment
        balance_out == IF fix THEN 0 ELSE reduced
    IN  [row |-> PaymentScheduleRow(i, Round2(total_monthly), Round2(principal_out),
                                    Round2(interest), Round2(balance_out), FALSE),
         balance |-> balance_out]

\* one pass of the loop body of generate_standard_amortization
StandardStep(i, num_payments, balance, monthly_payment, total_monthly, monthly_rate) ==
    StandardRow(i, num_payments, balance, monthly_payment, total_monthly,
                MulDiv(balance, monthly_rate, RateScale))

\* StandardLoop with the loop written as range(1, num_payments)
RECURSIVE StandardLoop_stops_early(_, _, _, _, _, _)
StandardLoop_stops_early(i, num_payments, balance, monthly_payment, total_monthly, monthly_rate) ==
    IF i >= num_payments THEN <<>>
    ELSE LET step == StandardStep(i, num_payments, balance, monthly_payment,
                                  total_monthly, monthly_rate)
         IN  <<step.row>> \o StandardLoop_stops_early(i + 1, num_payments, step.balance,
                                                      monthly_payment, total_monthly,
                                                      monthly_rate)

\* for i in range(i, num_payments + 1)
RECURSIVE StandardLoop(_, _, _, _, _, _)
StandardLoop(i, num_payments, balance, monthly_payment, total_monthly, monthly_rate) ==
    IF i > num_payments THEN <<>>
    ELSE LET step == StandardStep(i, num_payments, balance, monthly_payment,
                                  total_monthly, monthly_rate)
         IN  <<step.row>> \o StandardLoop(i + 1, num_payments, step.balance,
                                          monthly_payment, total_monthly, monthly_rate)

\* generate_standard_amortization once the level payment is known: the schedule
\* and the summary
StandardSummary(principal, annual_rate, num_payments, monthly_payment, total_monthly, monthly_servicing_fee) ==
    LET total_of_payments == total_monthly * num_payments
        finance_charge == total_of_payments - principal
    IN  LoanSummary(principal, annual_rate * PercentFactor, Round2(finance_charge),
                    Round2(total_of_payments), Round2(total_monthly), None, num_payments, 0,
                    None, None, "Standard Amortization",
                    StandardLoop(1, num_payments, principal, monthly_payment, total_monthly,
                                 MonthlyRate(annual_rate)),
                    monthly_servicing_fee)

\* generate_standard_amortization from the result of calculate_monthly_payment on
StandardFromPayment(principal, annual_rate, num_payments, payment, monthly_servicing_fee) ==
    IF payment.raised # "none" THEN Raised(payment.raised)
    ELSE Returned(StandardSummary(principal, annual_rate, num_payments, payment.value[1],
                                  payment.value[1] + monthly_servicing_fee,
                                  monthly_servicing_fee))

generate_standard_amortization(principal, annual_rate, term_years, monthly_servicing_fee) ==
    StandardFromPayment(principal, annual_rate, term_years * MonthsPerYear,
                        calculate_monthly_payment(principal, annual_rate,
                                                  term_years * MonthsPerYear),
                        monthly_servicing_fee)

\* ------------------------------------------- interest-only with balloon
\* BalloonRow with is_balloon left at its default in the final row
BalloonRow_unflagged(i, num_payments, principal, total_monthly, interest) ==
    IF i = num_payments
    THEN PaymentScheduleRow(i, Round2(total_monthly + principal), Round2(principal),
                            Round2(interest), 0, FALSE)
    ELSE PaymentScheduleRow(i, Round2(total_monthly), 0, Round2(interest),
                            Round2(principal), FALSE)

\* the row generate_interest_only_balloon emits for period i
BalloonRow(i, num_payments, principal, total_monthly, interest) ==
    IF i = num_payments
    THEN PaymentScheduleRow(i, Round2(total_monthly + principal), Round2(principal),
                            Round2(interest), 0, TRUE)
    ELSE PaymentScheduleRow(i, Round2(total_monthly), 0, Round2(interest),
                            Round2(principal), FALSE)

\* for i in range(i, num_payments + 1)
RECURSIVE BalloonLoop(_, _, _, _, _)
BalloonLoop(i, num_payments, principal, total_monthly, monthly_rate) ==
    IF i > num_payments THEN <<>>
    ELSE <<BalloonRow(i, num_payments, principal, total_monthly,
                      MulDiv(principal, monthly_rate, RateScale))>>
         \o BalloonLoop(i + 1, num_payments, principal, total_monthly, monthly_rate)

\* generate_interest_only_balloon once total_monthly is known
BalloonSummary(principal, annual_rate, num_payments, total_monthly, monthly_servicing_fee) ==
    LET total_of_payments == (total_monthly * num_payments) + principal
        finance_charge == total_of_payments - principal
    IN  LoanSummary(principal, annual_rate * PercentFactor, Round2(finance_charge),
                    Round2(total_of_payments), Round2(total_monthly), None, num_payments,
                    num_payments, Some(Round2(principal)), Some(num_payments),
                    "Interest-Only with Balloon",
                    BalloonLoop(1, num_payments, principal, total_monthly,
                                MonthlyRate(annual_rate)),
                    monthly_servicing_fee)

generate_interest_only_balloon(principal, annual_rate, term_years, monthly_servicing_fee) ==
    Returned(BalloonSummary(principal, annual_rate, term_years * MonthsPerYear,
                            calculate_interest_only_payment(principal, annual_rate)
                               + monthly_servicing_fee,
                            monthly_servicing_fee))

\* ----------------------------------------------------------------- hybrid
\* HybridIoRow with the servicing fee left out of payment_amount
HybridIoRow_without_fee(i, balance, total_io_monthly, interest) ==
    PaymentScheduleRow(i, Round2(interest), 0, Round2(interest), Round2(balance), FALSE)

\* the row the interest-only loop of generate_hybrid emits for period i
HybridIoRow(i, balance, total_io_monthly, interest) ==
    PaymentScheduleRow(i, Round2(total_io_monthly), 0, Round2(interest), Round2(balance),
                       FALSE)

\* for i in range(i, num_io_payments + 1)
RECURSIVE HybridIoLoop(_, _, _, _, _)
HybridIoLoop(i, num_io_payments, balance, total_io_monthly, monthly_rate) ==
    IF i > num_io_payments THEN <<>>
    ELSE <<HybridIoRow(i, balance, total_io_monthly,
                       MulDiv(balance, monthly_rate, RateScale))>>
         \o HybridIoLoop(i + 1, num_io_payments, balance, total_io_monthly, monthly_rate)

\* HybridAmortRow emitting the whole payment as the principal component
HybridAmortRow_principal_is_payment(i, total_payments, balance, amort_payment, total_amort_monthly, interest) ==
    LET principal_payment == amort_payment - interest
        reduced == Max(0, balance - principal_payment)
        fix == i = total_payments /\ reduced > 0
        balance_out == IF fix THEN 0 ELSE reduced
    IN  [row |-> PaymentScheduleRow(i, Round2(total_amort_monthly), Round2(amort_payment),
                                    Round2(interest), Round2(balance_out), FALSE),
         balance |-> balance_out]

\* the amortizing loop body of generate_hybrid after interest is computed
HybridAmortRow(i, total_payments, balance, amort_payment, total_amort_monthly, interest) ==
    LET principal_payment == amort_payment - interest
        reduced == Max(0, balance - principal_payment)
        fix == i = total_payments /\ reduced > 0
        principal_out == IF fix THEN principal_payment + reduced ELSE principal_payment
        balance_out == IF fix THEN 0 ELSE reduced
    IN  [row |-> PaymentScheduleRow(i, Round2(total_amort_monthly), Round2(principal_out),
                                    Round2(interest), Round2(balance_out), FALSE),
         balance |-> balance_out]

\* one pass of the amortizing loop body of generate_hybrid
HybridAmortStep(i, total_payments, balance, amort_payment, total_amort_monthly, monthly_rate) ==
    HybridAmortRow(i, total_payments, balance, amort_payment, total_amort_monthly,
                   MulDiv(balance, monthly_rate, RateScale))

\* for i in range(i, total_payments + 1)
RECURSIVE HybridAmortLoop(_, _, _, _, _, _)
HybridAmortLoop(i, total_payments, balance, amort_payment, total_amort_monthly, monthly_rate) ==
    IF i > total_payments THEN <<>>
    ELSE LET step == HybridAmortStep(i, total_payments, balance, amort_payment,
                                     total_amort_monthly, monthly_rate)
         IN  <<step.row>> \o HybridAmortLoop(i + 1, total_payments, step.balance,
                                             amort_payment, total_amort_monthly,
                                             monthly_rate)

\* HybridRejects with > in place of >=
HybridRejects_strict(io_period_years, term_years) == io_period_years > term_years

\* the guard of generate_hybrid: TRUE when the call is rejected
HybridRejects(io_period_years, term_years) == io_period_years >= term_years

\* HybridSummary with the period index restarting at 1 in the amortizing phase
HybridSummary_restarts_index(principal, annual_rate, num_io_payments, num_amort_payments, total_payments, amort_payment, total_io_monthly, total_amort_monthly, monthly_rate, monthly_servicing_fee) ==
    LET total_of_payments == (total_io_monthly * num_io_payments)
                             + (total_amort_monthly * num_amort_payments)
        finance_charge == total_of_payments - principal
    IN  LoanSummary(principal, annual_rate * PercentFactor, Round2(finance_charge),
                    Round2(total_of_payments), Round2(total_io_monthly),
                    Some(Round2(total_amort_monthly)), total_payments, num_io_payments,
                    None, None, "Hybrid (Interest-Only + Amortizing)",
                    HybridIoLoop(1, num_io_payments, principal, total_io_monthly,
                                 monthly_rate)
                    \o HybridAmortLoop(1, num_amort_payments, principal,
                                       amort_payment, total_amort_monthly, monthly_rate),
                    monthly_servicing_fee)

\* generate_hybrid once both phase payments are known: the schedule and the summary
HybridSummary(principal, annual_rate, num_io_payments, num_amort_payments, total_payments, amort_payment, total_io_monthly, total_amort_monthly, monthly_rate, monthly_servicing_fee) ==
    LET total_of_payments == (total_io_monthly * num_io_payments)
                             + (total_amort_monthly * num_amort_payments)
        finance_charge == total_of_payments - principal
    IN  LoanSummary(principal, annual_rate * PercentFactor, Round2(finance_charge),
                    Round2(total_of_payments), Round2(total_io_monthly),
                    Some(Round2(total_amort_monthly)), total_payments, num_io_payments,
                    None, None, "Hybrid (Interest-Only + Amortizing)",
                    HybridIoLoop(1, num_io_payments, principal, total_io_monthly,
                                 monthly_rate)
                    \o HybridAmortLoop(num_io_payments + 1, total_payments, principal,
                                       amort_payment, total_amort_monthly, monthly_rate),
                    monthly_servicing_fee)

\* generate_hybrid from the result of calculate_monthly_payment on
HybridFromPayment(principal, annual_rate, term_years, io_period_years, io_payment, amort, monthly_servicing_fee) ==
    IF amort.raised # "none" THEN Raised(amort.raised)
    ELSE Returned(HybridSummary(principal, annual_rate,
                                io_period_years * MonthsPerYear,
                                (term_years - io_period_years) * MonthsPerYear,
                                term_years * MonthsPerYear,
                                amort.value[1],
                                io_payment + monthly_servicing_fee,
                                amort.value[1] + monthly_servicing_fee,
                                MonthlyRate(annual_rate),
                                monthly_servicing_fee))

\* generate_hybrid with the amortizing payment sized over the whole term
generate_hybrid_payment_over_term(principal, annual_rate, term_years, io_period_years, monthly_servicing_fee) ==
    IF HybridRejects(io_period_years, term_years) THEN Raised("ValueError")
    ELSE HybridFromPayment(principal, annual_rate, term_years, io_period_years,
                           calculate_interest_only_payment(principal, annual_rate),
                           calculate_monthly_payment(principal, annual_rate,
                                                     term_years * MonthsPerYear),
                           monthly_servicing_fee)

generate_hybrid(principal, annual_rate, term_years, io_period_years, monthly_servicing_fee) ==
    IF HybridRejects(io_period_years, term_years) THEN Raised("ValueError")
    ELSE HybridFromPayment(principal, annual_rate, term_years, io_period_years,
                           calculate_interest_only_payment(principal, annual_rate),
                           calculate_monthly_payment(principal, annual_rate,
                               (term_years - io_period_years) * MonthsPerYear),
                           monthly_servicing_fee)

\* --------------------------------------------------- scenario orchestrator
ScenarioKeys == {"standard", "interest_only", "hybrid"}

\* io_years without the upper clamp
io_years_unclamped(io_period_years, term_years) ==
    IF io_period_years > 0 THEN io_period_years ELSE 1

\* io_years with 0 as the fallback for a non-positive request
io_years_zero_fallback(io_period_years, term_years) ==
    IF io_period_years > 0 THEN Min(io_period_years, term_years - 1) ELSE 0

\* the clamp of calculate_all_scenarios
io_years(io_period_years, term_years) ==
    IF io_period_years > 0 THEN Min(io_period_years, term_years - 1) ELSE 1

\* WithTransaction without the write of closing_costs
WithTransaction_drops_closing_costs(summary, purchase_price, down_payment, closing_costs) ==
    [summary EXCEPT !.purchase_price = purchase_price,
                    !.down_payment = down_payment]

\* the loop that writes the transaction details onto a summary
WithTransaction(summary, purchase_price, down_payment, closing_costs) ==
    [summary EXCEPT !.purchase_price = purchase_price,
                    !.down_payment = down_payment,
                    !.closing_costs = closing_costs]

\* calculate_all_scenarios after the three generator calls: an exception of a
\* generator propagates, otherwise the summaries are completed and returned
AllScenarios(standard, interest_only, hybrid, purchase_price, down_payment, closing_costs) ==
    IF standard.raised # "none" THEN Raised(standard.raised)
    ELSE IF interest_only.raised # "none" THEN Raised(interest_only.raised)
    ELSE IF hybrid.raised # "none" THEN Raised(hybrid.raised)
    ELSE Returned([k \in ScenarioKeys |->
                      WithTransaction(
                          CASE k = "standard" -> standard.value[1]
                            [] k = "interest_only" -> interest_only.value[1]
                            [] OTHER -> hybrid.value[1],
                          purchase_price, down_payment, closing_costs)])

\* calculate_all_scenarios with io_period_years passed to the interest-only
\* generator in the place of term_years
calculate_all_scenarios_io_as_term(purchase_price, down_payment, annual_rate, term_years, io_period_years, monthly_servicing_fee, closing_costs) ==
    AllScenarios(
        generate_standard_amortization(purchase_price - down_payment, annual_rate,
                                       term_years, monthly_servicing_fee),
        generate_interest_only_balloon(purchase_price - down_payment, annual_rate,
                                       io_period_years, monthly_servicing_fee),
        generate_hybrid(purchase_price - down_payment, annual_rate, term_years,
                        io_years(io_period_years, term_years), monthly_servicing_fee),
        purchase_price, down_payment, closing_costs)

calculate_all_scenarios(purchase_price, down_payment, annual_rate, term_years, io_period_years, monthly_servicing_fee, closing_costs) ==
    AllScenarios(
        generate_standard_amortization(purchase_price - down_payment, annual_rate,
                                       term_years, monthly_servicing_fee),
        generate_interest_only_balloon(purchase_price - down_payment, annual_rate,
                                       term_years, monthly_servicing_fee),
        generate_hybrid(purchase_price - down_payment, annual_rate, term_years,
                        io_years(io_period_years, term_years), monthly_servicing_fee),
        purchase_price, down_payment, closing_costs)

\* --------------------------------------------------------- note valuation
\* PresentValue with the payments summed at face value
RECURSIVE PresentValue_undiscounted(_, _, _, _)
PresentValue_undiscounted(schedule, monthly_servicing_fee, factors, k) ==
    IF k > Len(schedule) THEN 0
    ELSE (schedule[k].payment_amount - monthly_servicing_fee)
         + PresentValue_undiscounted(schedule, monthly_servicing_fee, factors, k + 1)

\* the present-value loop of calculate_note_sale_price over rows k..Len(schedule);
\* factors[n] is (1 + monthly_rate) ** n
RECURSIVE PresentValue(_, _, _, _)
PresentValue(schedule, monthly_servicing_fee, factors, k) ==
    IF k > Len(schedule) THEN 0
    ELSE MulDiv(schedule[k].payment_amount - monthly_servicing_fee, RateScale,
                factors[schedule[k].payment_number])
         + PresentValue(schedule, monthly_servicing_fee, factors, k + 1)

\* calculate_note_sale_price once the present value is known
NoteSale(buyer_yield, principal, pv) ==
    LET sale_price == pv
        discount_amount == principal - sale_price
    IN  NoteSaleAnalysis(buyer_yield * PercentFactor, Round0(sale_price),
                         Round0(discount_amount),
                         IF principal > 0
                         THEN MulDiv(discount_amount, PercentFactor * PercentDecimals,
                                     principal)
                         ELSE 0)

calculate_note_sale_price(summary, buyer_yield) ==
    NoteSale(buyer_yield, summary.amount_financed,
             PresentValue(summary.schedule, summary.monthly_servicing_fee,
                          Powers(RateScale + MonthlyRate(buyer_yield),
                                 Len(summary.schedule)),
                          1))

DefaultYields == <<10000000, 12000000, 14000000, 16000000>>

\* MapNoteSale collecting the analyses in reverse order
RECURSIVE MapNoteSale_reversed(_, _, _)
MapNoteSale_reversed(summary, yields, k) ==
    IF k > Len(yields) THEN <<>>
    ELSE MapNoteSale_reversed(summary, yields, k + 1)
         \o <<calculate_note_sale_price(summary, yields[k])>>

\* the list comprehension of calculate_discount_scenarios from element k on
RECURSIVE MapNoteSale(_, _, _)
MapNoteSale(summary, yields, k) ==
    IF k > Len(yields) THEN <<>>
    ELSE <<calculate_note_sale_price(summary, yields[k])>>
         \o MapNoteSale(summary, yields, k + 1)

\* yields is None or Some(list)
calculate_discount_scenarios(summary, yields) ==
    MapNoteSale(summary, IF yields = None THEN DefaultYields ELSE yields[1], 1)

\* ------------------------------------------------------------------ inputs
PurchasePrices == {Cent, 100 * Dollar + 400, 1000 * Dollar}

DownPayments == {0, 100 * Dollar + 400}

AnnualRates == {0, 10000000}

TermYears == 1..MaxTermYears

IoPeriodYears == (0 - 1)..MaxTermYears

ServicingFees == {0, 400, 2999 * Cent}

ClosingCosts == {999 * Dollar}

YieldValues == {0, 10000000, 16000000}

NumPayments ==
    ((0 - MaxNegPayments)..MaxNegPayments) \cup {t * MonthsPerYear : t \in TermYears}

\* the yields argument: omitted, empty, sorted, unsorted, repeated
YieldLists ==
    {None, Some(<<>>), Some(<<0, 16000000>>), Some(<<16000000, 0>>),
     Some(<<16000000, 16000000>>)}

\* ------------------------------------------------------------------- state
VARIABLES args, op, raised, scenarios, summary, payment, call, analyses

vars == <<args, op, raised, scenarios, summary, payment, call, analyses>>

NoScenarios == [k \in {} |-> 0]

Init ==
    /\ args \in [purchase_price : PurchasePrices,
                 down_payment : DownPayments,
                 annual_rate : AnnualRates,
                 term_years : TermYears,
                 io_period_years : IoPeriodYears,
                 monthly_servicing_fee : ServicingFees,
                 closing_costs : ClosingCosts]
    /\ op = "none"
    /\ raised = "none"
    /\ scenarios = NoScenarios
    /\ summary = None
    /\ payment = None
    /\ call = <<>>
    /\ analyses = <<>>

Principal == args.purchase_price - args.down_payment

\* the user presses "Calculate All Options" (or any caller invokes the orchestrator)
CalculateAllScenarios ==
    /\ op = "none"
    /\ \E r \in {calculate_all_scenarios(args.purchase_price, args.down_payment,
                                         args.annual_rate, args.term_years,
                                         args.io_period_years, args.monthly_servicing_fee,
                                         args.closing_costs)} :
          /\ raised' = r.raised
          /\ scenarios' = IF r.raised = "none" THEN r.value[1] ELSE NoScenarios
    /\ op' = "calculate_all_scenarios"
    /\ call' = <<args.purchase_price, args.down_payment, args.annual_rate, args.term_years,
                 args.io_period_years, args.monthly_servicing_fee, args.closing_costs>>
    /\ UNCHANGED <<args, summary, payment, analyses>>

\* a generator's result lands in summary, or its exception in raised
Deliver(name, r, actuals) ==
    /\ op' = name
    /\ raised' = r.raised
    /\ summary' = r.value
    /\ call' = actuals
    /\ UNCHANGED <<args, scenarios, payment, analyses>>

GenerateStandardAmortization ==
    /\ op = "none"
    /\ Deliver("generate_standard_amortization",
               generate_standard_amortization(Principal, args.annual_rate, args.term_years,
                                              args.monthly_servicing_fee),
               <<Principal, args.annual_rate, args.term_years, args.monthly_servicing_fee>>)

GenerateInterestOnlyBalloon ==
    /\ op = "none"
    /\ Deliver("generate_interest_only_balloon",
               generate_interest_only_balloon(Principal, args.annual_rate, args.term_years,
                                              args.monthly_servicing_fee),
               <<Principal, args.annual_rate, args.term_years, args.monthly_servicing_fee>>)

GenerateHybrid ==
    /\ op = "none"
    /\ Deliver("generate_hybrid",
               generate_hybrid(Principal, args.annual_rate, args.term_years,
                               args.io_period_years, args.monthly_servicing_fee),
               <<Principal, args.annual_rate, args.term_years, args.io_period_years,
                 args.monthly_servicing_fee>>)

CalculateMonthlyPayment ==
    /\ op = "none"
    /\ \E n \in NumPayments :
          \E r \in {calculate_monthly_payment(Principal, args.annual_rate, n)} :
             /\ raised' = r.raised
             /\ payment' = r.value
             /\ call' = <<Principal, args.annual_rate, n>>
    /\ op' = "calculate_monthly_payment"
    /\ UNCHANGED <<args, scenarios, summary, analyses>>

\* the note-sale section values one of the returned summaries
CalculateNoteSalePrice ==
    /\ op = "calculate_all_scenarios"
    /\ raised = "none"
    /\ \E key \in ScenarioKeys, y \in YieldValues :
          /\ analyses' = <<calculate_note_sale_price(scenarios[key], y)>>
          /\ call' = <<key, y>>
    /\ op' = "calculate_note_sale_price"
    /\ UNCHANGED <<args, raised, scenarios, summary, payment>>

CalculateDiscountScenarios ==
    /\ op = "calculate_all_scenarios"
    /\ raised = "none"
    /\ \E key \in ScenarioKeys, yields \in YieldLists :
          /\ analyses' = calculate_discount_scenarios(scenarios[key], yields)
          /\ call' = <<key, yields>>
    /\ op' = "calculate_discount_scenarios"
    /\ UNCHANGED <<args, raised, scenarios, summary, payment>>

Next ==
    \/ CalculateAllScenarios
    \/ GenerateStandardAmortization
    \/ GenerateInterestOnlyBalloon
    \/ GenerateHybrid
    \/ CalculateMonthlyPayment
    \/ CalculateNoteSalePrice
    \/ CalculateDiscountScenarios

Spec == Init /\ [][Next]_vars

\* ================================================================= claims
\* the exception the code raises where the specification names an
\* InvalidConfigurationError
InvalidConfigurationError == "ValueError"

OrchestratorCalled ==
    op \in {"calculate_all_scenarios", "calculate_note_sale_price",
            "calculate_discount_scenarios"}

ScenariosReturned == DOMAIN scenarios = ScenarioKeys

LastRow(s) == s.schedule[Len(s.schedule)]

BalloonRows(s) == {k \in 1..Len(s.schedule) : s.schedule[k].is_balloon}

\* C1: for valid inputs (principal > 0, rate >= 0, term >= 1, hybrid
\* interest-only years below the term) the last row of the standard schedule
\* and the last row of the hybrid schedule have balance exactly 0.
C1_FinalBalanceZero ==
    /\ (ScenariosReturned /\ Principal > 0)
          => /\ LastRow(scenarios["standard"]).balance = 0
             /\ LastRow(scenarios["hybrid"]).balance = 0
    /\ (/\ op \in {"generate_standard_amortization", "generate_hybrid"}
        /\ raised = "none"
        /\ Principal > 0)
          => LastRow(summary[1]).balance = 0

C1_Witness ==
    /\ ScenariosReturned
    /\ Principal > 0
    /\ args.annual_rate > 0
    /\ scenarios["hybrid"].num_io_payments = MonthsPerYear
    /\ LET std == scenarios["standard"].schedule
       IN  std[Len(std) - 1].balance > 0 /\ std[Len(std)].balance = 0
    /\ LastRow(scenarios["hybrid"]).balance = 0

\* C2: for valid inputs every one of the three summaries stores
\* finance_charge == total_of_payments - amount_financed.
C2_FinanceChargeIdentity ==
    (ScenariosReturned /\ Principal > 0)
       => \A k \in ScenarioKeys :
             scenarios[k].finance_charge
                = scenarios[k].total_of_payments - scenarios[k].amount_financed

\* C3: of the three schedules of one calculation exactly one row is flagged
\* is_balloon: the last row (payment_number = term_years * 12) of the
\* interest-only schedule, whose payment_amount is the interest-only payment
\* plus the servicing fee plus the principal (as emitted, in whole cents); no
\* row of the standard or hybrid schedule is flagged.
C3_SingleBalloonRow ==
    ScenariosReturned
       => LET io == scenarios["interest_only"]
              last == LastRow(io)
          IN  /\ BalloonRows(scenarios["standard"]) = {}
              /\ BalloonRows(scenarios["hybrid"]) = {}
              /\ BalloonRows(io) = {Len(io.schedule)}
              /\ last.payment_number = args.term_years * MonthsPerYear
              /\ last.payment_amount
                    = Round2(calculate_interest_only_payment(Principal, args.annual_rate)
                             + args.monthly_servicing_fee + Principal)

C3_Witness ==
    /\ ScenariosReturned
    /\ Principal > 0
    /\ args.annual_rate > 0
    /\ args.monthly_servicing_fee > 0
    /\ LastRow(scenarios["interest_only"]).is_balloon
    /\ LastRow(scenarios["interest_only"]).payment_amount > Principal

\* C4: calculate_all_scenarios fails with an InvalidConfigurationError and
\* returns no summaries whenever purchase_price - down_payment <= 0.
C4_NonPositivePrincipalRejected ==
    (OrchestratorCalled /\ Principal <= 0)
       => (raised = InvalidConfigurationError /\ scenarios = NoScenarios)

\* C5: for term_years >= 1 and io_period_years >= term_years,
\* calculate_all_scenarios does not raise: the interest-only years are clamped
\* (to term_years - 1) and all three summaries are returned.
C5_ClampDoesNotRaise ==
    (OrchestratorCalled /\ args.io_period_years >= args.term_years)
       => /\ raised = "none"
          /\ ScenariosReturned
          /\ scenarios["hybrid"].num_io_payments
                = (args.term_years - 1) * MonthsPerYear

C5_Witness ==
    /\ OrchestratorCalled
    /\ args.term_years = 2
    /\ args.io_period_years >= args.term_years
    /\ ScenariosReturned
    /\ scenarios["hybrid"].num_io_payments = MonthsPerYear

\* C6 (as stated): for every term_years in [1, 40] and every integer
\* io_period_years the interest-only years passed to generate_hybrid lie in
\* [1, term_years - 1], so 12 <= num_io_payments <= (term_years - 1) * 12.
C6_IoYearsInRange ==
    OrchestratorCalled
       => /\ io_years(args.io_period_years, args.term_years) \in 1..(args.term_years - 1)
          /\ raised = "none"
          /\ scenarios["hybrid"].num_io_payments >= MonthsPerYear
          /\ scenarios["hybrid"].num_io_payments <= (args.term_years - 1) * MonthsPerYear

\* C6 (amended): the same for every term_years from 2 up; with term_years = 1
\* the interval [1, term_years - 1] is empty.
C6_IoYearsInRangeFromTwoYears ==
    (OrchestratorCalled /\ args.term_years >= 2)
       => /\ io_years(args.io_period_years, args.term_years) \in 1..(args.term_years - 1)
          /\ raised = "none"
          /\ scenarios["hybrid"].num_io_payments >= MonthsPerYear
          /\ scenarios["hybrid"].num_io_payments <= (args.term_years - 1) * MonthsPerYear

C6_Witness ==
    /\ OrchestratorCalled
    /\ args.term_years >= 2
    /\ args.io_period_years < 0
    /\ ScenariosReturned
    /\ scenarios["hybrid"].num_io_payments = MonthsPerYear

\* C7: generate_hybrid called with io_period_years >= term_years fails with an
\* InvalidConfigurationError and returns no summary, hence no schedule row.
C7_HybridRejectsLongIoPeriod ==
    (op = "generate_hybrid" /\ args.io_period_years >= args.term_years)
       => (raised = InvalidConfigurationError /\ summary = None)

C7_Witness ==
    /\ op = "generate_hybrid"
    /\ args.io_period_years = args.term_years
    /\ raised = InvalidConfigurationError
    /\ summary = None

\* C8: calculate_monthly_payment fails for every num_payments <= 0, in the
\* zero-rate branch and in the closed-form branch; it never returns a payment
\* value for a non-positive period count.
C8_NonPositiveTermRejected ==
    (op = "calculate_monthly_payment" /\ call[3] <= 0)
       => (raised # "none" /\ payment = None)

C10_DiscountMonotoneInYield ==
    (op = "calculate_discount_scenarios" /\ Principal > 0)
       => \A i, j \in 1..Len(analyses) :
             (analyses[i].buyer_yield <= analyses[j].buyer_yield)
                => (analyses[i].discount_percent <= analyses[j].discount_percent)

\* the note-sale call priced one of the returned summaries at a single yield
NoteSalePriced == op = "calculate_note_sale_price"

\* the rounding a sale price carries: half a dollar for the whole-dollar result
\* and half a cent for each payment_amount of the schedule, doubled
TwiceRoundingTolerance(s) == Dollar + Len(s.schedule) * Cent

\* C11: for a summary generated with servicing fee 0, the note sale price at a
\* buyer yield equal to the loan's annual rate equals amount_financed within
\* rounding tolerance, and the discount amount is within the same tolerance of
\* 0, for each of the three loan structures.
C11_ParAtOwnRate ==
    (/\ NoteSalePriced
     /\ Principal > 0
     /\ args.monthly_servicing_fee = 0
     /\ call[2] = args.annual_rate)
       => /\ 2 * Abs(analyses[1].sale_price - scenarios[call[1]].amount_financed)
                <= TwiceRoundingTolerance(scenarios[call[1]])
          /\ 2 * Abs(analyses[1].discount_amount)
                <= TwiceRoundingTolerance(scenarios[call[1]])

C11_Witness ==
    /\ NoteSalePriced
    /\ Principal = 1000 * Dollar - (100 * Dollar + 400)
    /\ args.monthly_servicing_fee = 0
    /\ args.annual_rate > 0
    /\ call = <<"hybrid", args.annual_rate>>
    /\ analyses[1].sale_price = 900 * Dollar
    /\ analyses[1].discount_amount = 0

\* the rows of the amortizing portion of a schedule: all rows of a standard
\* schedule, the rows after the interest-only phase of a hybrid one
AmortizingRows(s) == (s.num_io_payments + 1)..Len(s.schedule)

AmortizingKeys == {"standard", "hybrid"}

\* C12: in every non-final row of the standard schedule and of the hybrid
\* amortizing phase, principal + interest equals the row's payment_amount up to
\* per-row rounding (two cents), for every valid input, a positive monthly
\* servicing fee included.
C12_PrincipalPlusInterestIsPayment ==
    (ScenariosReturned /\ Principal > 0)
       => \A key \in AmortizingKeys :
             \A k \in AmortizingRows(scenarios[key]) \ {Len(scenarios[key].schedule)} :
                Abs(scenarios[key].schedule[k].principal
                    + scenarios[key].schedule[k].interest
                    - scenarios[key].schedule[k].payment_amount) <= 2 * Cent

\* C13: for valid inputs every row of every schedule has balance >= 0, and
\* throughout the standard schedule and the hybrid amortizing phase the balance
\* never increases from one row to the next.
C13_BalanceNonNegativeNonIncreasing ==
    (ScenariosReturned /\ Principal > 0)
       => /\ \A key \in ScenarioKeys :
                \A k \in 1..Len(scenarios[key].schedule) :
                   scenarios[key].schedule[k].balance >= 0
          /\ \A key \in AmortizingKeys :
                \A k \in AmortizingRows(scenarios[key]) \ {Len(scenarios[key].schedule)} :
                   scenarios[key].schedule[k + 1].balance
                      <= scenarios[key].schedule[k].balance

C13_Witness ==
    /\ ScenariosReturned
    /\ Principal > 0
    /\ args.annual_rate > 0
    /\ scenarios["hybrid"].num_io_payments = MonthsPerYear
    /\ scenarios["standard"].schedule[2].balance < scenarios["standard"].schedule[1].balance
    /\ scenarios["standard"].schedule[2].balance > 0
    /\ scenarios["hybrid"].schedule[MonthsPerYear + 2].balance
          < scenarios["hybrid"].schedule[MonthsPerYear + 1].balance
    /\ scenarios["hybrid"].schedule[MonthsPerYear + 1].balance
          < scenarios["hybrid"].schedule[MonthsPerYear].balance

\* what the generator behind a key returns for the orchestrator's arguments with
\* the given servicing fee
GeneratorWithFee(key, fee) ==
    CASE key = "standard" ->
            generate_standard_amortization(Principal, args.annual_rate, args.term_years, fee)
      [] key = "interest_only" ->
            generate_interest_only_balloon(Principal, args.annual_rate, args.term_years, fee)
      [] OTHER ->
            generate_hybrid(Principal, args.annual_rate, args.term_years,
                            io_years(args.io_period_years, args.term_years), fee)

\* what the generator behind a key returns for the orchestrator's arguments
GeneratorResult(key) == GeneratorWithFee(key, args.monthly_servicing_fee)

\* C14: a successful calculate_all_scenarios returns a mapping with exactly the
\* keys standard, interest_only and hybrid; on each summary purchase_price,
\* down_payment and closing_costs equal the call's inputs, and every other
\* field and every schedule row is as the generator produced it.
C14_TransactionContextFrame ==
    (op = "calculate_all_scenarios" /\ raised = "none")
       => /\ DOMAIN scenarios = {"standard", "interest_only", "hybrid"}
          /\ \A key \in DOMAIN scenarios :
                /\ scenarios[key].purchase_price = args.purchase_price
                /\ scenarios[key].down_payment = args.down_payment
                /\ scenarios[key].closing_costs = args.closing_costs
                /\ [scenarios[key] EXCEPT !.purchase_price = 0,
                                          !.down_payment = 0,
                                          !.closing_costs = 0]
                      = GeneratorResult(key).value[1]

C14_Witness ==
    /\ op = "calculate_all_scenarios"
    /\ raised = "none"
    /\ Principal > 0
    /\ args.down_payment > 0
    /\ scenarios["hybrid"].closing_costs = 999 * Dollar
    /\ scenarios["hybrid"].down_payment = args.down_payment
    /\ scenarios["standard"].purchase_price = 1000 * Dollar
    /\ scenarios["interest_only"].loan_type = "Interest-Only with Balloon"

\* the orchestrator called again with only io_period_years changed
WithIoPeriodYears(io) ==
    calculate_all_scenarios(args.purchase_price, args.down_payment, args.annual_rate,
                            args.term_years, io, args.monthly_servicing_fee,
                            args.closing_costs)

\* C15: two successful calls of calculate_all_scenarios that differ only in
\* io_period_years return identical standard summaries and identical
\* interest_only summaries.
C15_IoPeriodDoesNotReachOtherGenerators ==
    (op = "calculate_all_scenarios" /\ raised = "none")
       => \A io \in IoPeriodYears :
             \A other \in {WithIoPeriodYears(io)} :
                other.raised = "none"
                   => /\ other.value[1]["standard"] = scenarios["standard"]
                      /\ other.value[1]["interest_only"] = scenarios["interest_only"]

C15_Witness ==
    /\ op = "calculate_all_scenarios"
    /\ raised = "none"
    /\ Principal > 0
    /\ args.term_years = 2
    /\ args.io_period_years = 2
    /\ WithIoPeriodYears(0 - 1).raised = "none"
    /\ WithIoPeriodYears(0 - 1).value[1]["interest_only"] = scenarios["interest_only"]
    /\ Len(scenarios["interest_only"].schedule) = 2 * MonthsPerYear

\* the fields of an analysis that carry the valuation
Valuation(a) == <<a.sale_price, a.discount_amount, a.discount_percent>>

\* C16: for two summaries produced by the same generator from the same
\* principal, rate and term but different servicing fees,
\* calculate_note_sale_price returns the same sale_price, discount_amount and
\* discount_percent at every yield.
C16_SalePriceIgnoresServicingFee ==
    (NoteSalePriced /\ Principal > 0)
       => \A fee \in ServicingFees :
             Valuation(calculate_note_sale_price(GeneratorWithFee(call[1], fee).value[1],
                                                 call[2]))
                = Valuation(analyses[1])

\* a note-sale operation has returned its analyses for scenarios[call[1]]
NoteSaleReturned == op \in {"calculate_note_sale_price", "calculate_discount_scenarios"}

\* C17: every NoteSaleAnalysis returned satisfies
\* discount_amount == amount_financed - sale_price on its stored (rounded)
\* fields, and has discount_percent == 0 when amount_financed is 0.
C17_DiscountIsPrincipalMinusSalePrice ==
    NoteSaleReturned
       => \A i \in 1..Len(analyses) :
             /\ analyses[i].discount_amount
                   = scenarios[call[1]].amount_financed - analyses[i].sale_price
             /\ (scenarios[call[1]].amount_financed = 0)
                   => (analyses[i].discount_percent = 0)

\* the rows of s are numbered 1, 2, ..., n in order, and n is s.num_payments
NumberedOneTo(s, n) ==
    /\ Len(s.schedule) = n
    /\ s.num_payments = n
    /\ \A k \in 1..Len(s.schedule) : s.schedule[k].payment_number = k

\* a generator was called on its own and returned a summary
GeneratorReturned ==
    /\ op \in {"generate_standard_amortization", "generate_interest_only_balloon",
               "generate_hybrid"}
    /\ raised = "none"

\* C18: in each of the three schedules the rows' payment_number values are
\* exactly 1, 2, ..., term_years * 12 in order, and the schedule length equals
\* the summary's num_payments; in the hybrid schedule the index runs on across
\* the interest-only and the amortizing phase.
C18_PeriodIndexContinuous ==
    /\ ScenariosReturned
          => \A key \in ScenarioKeys :
                NumberedOneTo(scenarios[key], args.term_years * MonthsPerYear)
    /\ (GeneratorReturned /\ (op = "generate_hybrid" => args.io_period_years >= 1))
          => NumberedOneTo(summary[1], args.term_years * MonthsPerYear)

C18_Witness ==
    /\ ScenariosReturned
    /\ args.term_years = 2
    /\ scenarios["hybrid"].num_io_payments = MonthsPerYear
    /\ scenarios["hybrid"].schedule[MonthsPerYear].principal = 0
    /\ scenarios["hybrid"].schedule[MonthsPerYear + 1].principal > 0
    /\ scenarios["hybrid"].schedule[MonthsPerYear + 1].payment_number = MonthsPerYear + 1
    /\ scenarios["hybrid"].schedule[2 * MonthsPerYear].payment_number = 2 * MonthsPerYear

\* the first io * 12 rows of hybrid summary s are interest-only rows on the
\* unreduced principal (fields as emitted, in whole cents)
InterestOnlyPhase(s, io) ==
    /\ s.num_io_payments = io * MonthsPerYear
    /\ \A k \in 1..(io * MonthsPerYear) :
          /\ s.schedule[k].principal = 0
          /\ s.schedule[k].balance = Round2(s.amount_financed)
          /\ s.schedule[k].interest
                = Round2(MulDiv(s.amount_financed, MonthlyRate(args.annual_rate), RateScale))
          /\ s.schedule[k].payment_amount
                = Round2(calculate_interest_only_payment(s.amount_financed, args.annual_rate)
                         + args.monthly_servicing_fee)

\* C19: in the hybrid schedule each of the first io_period_years * 12 rows has
\* principal component 0, balance equal to the full original principal,
\* interest computed on the unreduced principal, and payment_amount equal to
\* the interest-only payment plus the servicing fee; the summary's
\* num_io_payments equals io_period_years * 12.
C19_HybridInterestOnlyPhase ==
    /\ ScenariosReturned
          => InterestOnlyPhase(scenarios["hybrid"],
                               io_years(args.io_period_years, args.term_years))
    /\ (op = "generate_hybrid" /\ raised = "none")
          => InterestOnlyPhase(summary[1], args.io_period_years)

C19_Witness ==
    /\ op = "generate_hybrid"
    /\ raised = "none"
    /\ args.io_period_years = 1
    /\ args.annual_rate > 0
    /\ args.monthly_servicing_fee > 0
    /\ Principal = 1000 * Dollar
    /\ summary[1].schedule[MonthsPerYear].balance = 1000 * Dollar
    /\ summary[1].schedule[MonthsPerYear].interest > 0
    /\ summary[1].schedule[MonthsPerYear + 1].balance < 1000 * Dollar

\* the sum of the principal components of rows k..Len(schedule), as emitted
RECURSIVE SumPrincipal(_, _)
SumPrincipal(schedule, k) ==
    IF k > Len(schedule) THEN 0
    ELSE schedule[k].principal + SumPrincipal(schedule, k + 1)

\* the emitted principal components of the amortizing phase of hybrid summary s
AmortizingPrincipal(s) == SumPrincipal(s.schedule, s.num_io_payments + 1)

\* C20 (as stated): in the hybrid schedule the principal components of the
\* amortizing-phase rows, the reconciled final row included, as emitted in the
\* rows, sum to the full original principal.
C20_AmortizingPrincipalSumsToPrincipal ==
    (ScenariosReturned /\ Principal > 0)
       => AmortizingPrincipal(scenarios["hybrid"]) = scenarios["hybrid"].amount_financed

\* C20 (amended): the emitted principal components of the amortizing-phase rows
\* sum to the full original principal to within half a cent per amortizing row,
\* the rounding each row's principal carries.
C20_AmortizingPrincipalSumsWithinRounding ==
    (ScenariosReturned /\ Principal > 0)
       => 2 * Abs(AmortizingPrincipal(scenarios["hybrid"])
                  - scenarios["hybrid"].amount_financed)
             <= Cent * (Len(scenarios["hybrid"].schedule)
                        - scenarios["hybrid"].num_io_payments)

C20_Witness ==
    /\ ScenariosReturned
    /\ Principal = 1000 * Dollar
    /\ scenarios["hybrid"].num_io_payments = MonthsPerYear
    /\ AmortizingPrincipal(scenarios["hybrid"]) # 1000 * Dollar
    /\ Abs(AmortizingPrincipal(scenarios["hybrid"]) - 1000 * Dollar) <= 4 * Cent

\* the monetary fields of a schedule row
RowAmounts(row) == <<row.payment_amount, row.principal, row.interest, row.balance>>

\* the amortizing phase of hybrid summary h is the schedule of standard summary std
AmortizingPhaseIs(h, std) ==
    /\ Len(h.schedule) - h.num_io_payments = Len(std.schedule)
    /\ \A k \in 1..Len(std.schedule) :
          RowAmounts(h.schedule[h.num_io_payments + k]) = RowAmounts(std.schedule[k])
    /\ h.monthly_payment_amortizing = Some(std.monthly_payment)

\* the standard amortization of the orchestrator's principal over the years
\* that remain after io interest-only years
StandardOverRemainingYears(io) ==
    generate_standard_amortization(Principal, args.annual_rate, args.term_years - io,
                                   args.monthly_servicing_fee)

\* C21: the hybrid amortizing phase is the standard amortization of the same
\* principal over (term_years - io_period_years) years: row
\* io_period_years * 12 + k of the hybrid schedule has the payment_amount,
\* principal, interest and balance of row k of that standard schedule, for
\* every k, and monthly_payment_amortizing equals its monthly_payment.
C21_HybridAmortizingPhaseIsStandard ==
    /\ ScenariosReturned
          => \A std \in {StandardOverRemainingYears(
                             io_years(args.io_period_years, args.term_years))} :
                /\ std.raised = "none"
                /\ AmortizingPhaseIs(scenarios["hybrid"], std.value[1])
    /\ (op = "generate_hybrid" /\ raised = "none" /\ args.io_period_years >= 1)
          => \A std \in {StandardOverRemainingYears(args.io_period_years)} :
                /\ std.raised = "none"
                /\ AmortizingPhaseIs(summary[1], std.value[1])

C21_Witness ==
    /\ op = "generate_hybrid"
    /\ raised = "none"
    /\ args.term_years = 2
    /\ args.io_period_years = 1
    /\ args.annual_rate > 0
    /\ args.monthly_servicing_fee > 0
    /\ Principal = 1000 * Dollar
    /\ summary[1].schedule[MonthsPerYear + 1].principal > 0
    /\ RowAmounts(summary[1].schedule[2 * MonthsPerYear])
          = RowAmounts(LastRow(StandardOverRemainingYears(1).value[1]))

\* q is total / n to the nearest unit of the representation
IsQuotient(q, total, n) == 2 * Abs(q * n - total) <= n

\* standard summary s is the zero-rate schedule of level payment q: no interest,
\* the balance down by q each period (emitted to the nearest cent), 0 at the end
ZeroRateStandard(s, q) ==
    /\ IsQuotient(q, s.amount_financed, s.num_payments)
    /\ \A k \in 1..Len(s.schedule) :
          /\ s.schedule[k].interest = 0
          /\ s.schedule[k].balance % Cent = 0
          /\ IF k = Len(s.schedule)
             THEN s.schedule[k].balance = 0
             ELSE 2 * Abs(s.schedule[k].balance - Max(0, s.amount_financed - k * q))
                     <= Cent

\* C22: with annual_rate == 0 and num_payments >= 1, calculate_monthly_payment
\* returns principal / num_payments without dividing by zero; the standard
\* schedule then has interest 0 in every row, a balance that decreases by the
\* level payment each period and final balance 0, and every non-final payment
\* of the interest-only schedule is the servicing fee alone.
C22_ZeroRate ==
    /\ (op = "calculate_monthly_payment" /\ call[2] = 0 /\ call[3] >= 1)
          => /\ raised = "none"
             /\ payment # None
             /\ IsQuotient(payment[1], call[1], call[3])
    /\ (ScenariosReturned /\ args.annual_rate = 0 /\ Principal > 0)
          => /\ \A r \in {calculate_monthly_payment(Principal, args.annual_rate,
                                                     args.term_years * MonthsPerYear)} :
                   /\ r.raised = "none"
                   /\ ZeroRateStandard(scenarios["standard"], r.value[1])
             /\ \A k \in 1..(Len(scenarios["interest_only"].schedule) - 1) :
                   scenarios["interest_only"].schedule[k].payment_amount
                      = Round2(args.monthly_servicing_fee)

C22_Witness ==
    /\ op = "calculate_all_scenarios"
    /\ args.annual_rate = 0
    /\ Principal = 1000 * Dollar
    /\ args.monthly_servicing_fee = 2999 * Cent
    /\ args.term_years = 2
    /\ ScenariosReturned
    /\ scenarios["standard"].schedule[1].interest = 0
    /\ scenarios["standard"].schedule[1].balance < 1000 * Dollar
    /\ scenarios["standard"].schedule[2].balance < scenarios["standard"].schedule[1].balance
    /\ LastRow(scenarios["standard"]).balance = 0
    /\ scenarios["interest_only"].schedule[1].payment_amount = 2999 * Cent

\* every row of standard summary s, the final one included, carries the
\* summary's monthly_payment: the level payment q plus the servicing fee
LevelPaymentRows(s, q) ==
    /\ s.monthly_payment = Round2(q + s.monthly_servicing_fee)
    /\ \A k \in 1..Len(s.schedule) :
          s.schedule[k].payment_amount = s.monthly_payment

\* the level payment of the standard schedule for the orchestrator's arguments
StandardLevelPayment ==
    calculate_monthly_payment(Principal, args.annual_rate,
                              args.term_years * MonthsPerYear)

\* C23: every row of a standard schedule, the final reconciled row included,
\* carries the same payment_amount (level payment + servicing fee, the
\* summary's monthly_payment); final-period reconciliation never changes the
\* final row's payment_amount.
C23_StandardPaymentAmountLevel ==
    /\ ScenariosReturned
          => LevelPaymentRows(scenarios["standard"], StandardLevelPayment.value[1])
    /\ (op = "generate_standard_amortization" /\ raised = "none")
          => LevelPaymentRows(summary[1], StandardLevelPayment.value[1])

C23_Witness ==
    /\ op = "generate_standard_amortization"
    /\ raised = "none"
    /\ Principal > 0
    /\ args.monthly_servicing_fee = 2999 * Cent
    /\ LastRow(summary[1]).payment_amount = summary[1].schedule[1].payment_amount
    /\ LastRow(summary[1]).balance = 0
    /\ LastRow(summary[1]).principal + LastRow(summary[1]).interest
          > LastRow(summary[1]).payment_amount - 2999 * Cent

====
